---- MODULE Spec2Model ----
(***************************************************************************)
(* SourceTrader (src/main.py): the TradingView ingestion webhook (POST     *)
(* /tv), the signal store with close -> open reference resolution, and the *)
(* daily-summary trigger (GET /cron) with its 'last_summary_tehran_date'   *)
(* marker.  Time is in minutes since the UTC midnight of day 0.            *)
(***************************************************************************)
EXTENDS Integers, Sequences, FiniteSets, TLC

\* ------------------------------------------------------------------------
\* Optional values (Python None / SQL NULL): <<>> is absent, <<x>> is x.
None == <<>>
Some(x) == <<x>>
IsSome(o) == o # <<>>
Val(o) == o[1]

\* ------------------------------------------------------------------------
\* Bounds of the model.
MaxTick == 10     \* clock instants the model steps through
MaxId == 3        \* ids the signals sequence hands out
MaxBatches == 2   \* batches per date up to which a run may stop before its marker write
MaxUpdates == 3   \* chat updates the model hands to POST /tg/webhook
MaxPayments == 1  \* payments rows per user

\* ------------------------------------------------------------------------
\* Configuration (environment variables, lines 15-29).
WEBHOOK_SECRET == "tvsecret"
CRON_TOKEN == "crontoken"
TELEGRAM_WEBHOOK_SECRET == "tgsecret"
ADMIN_IDS == {1}
TRIAL_DAYS == 7

\* Requests in flight: worker slots of POST /tv and of GET /cron.
TvProcs == {1, 2}
CronProcs == {1, 2}

\* Rows of the users table.
Users == {1, 2, 3}

\* ------------------------------------------------------------------------
\* TIME HELPERS

\* Asia/Tehran is UTC+03:30.
TehranOffsetMin == 210

\* The clock instants the model visits: on each day 23:00, 23:29, 23:30,
\* 23:59 and 00:00 (of the next day) Tehran time, as UTC minutes.
Instant(i) ==
    LET day == (i - 1) \div 5
        k == (i - 1) % 5
        off == <<0, 29, 30, 59, 60>>
    IN  day * 1440 + (23 * 60 - TehranOffsetMin) + off[k + 1]

\* to_tehran: minutes since Tehran midnight of day 0.
to_tehran(t) == t + TehranOffsetMin

TehranHour(t) == (to_tehran(t) % 1440) \div 60
TehranMinute(t) == to_tehran(t) % 60

\* tehran_day_bounds(...)[2]: the Tehran calendar date (a day number).
TehranDate(t) == to_tehran(t) \div 1440

\* tehran_day_bounds(...)[0..1]: [start_utc, end_utc) of the Tehran day.
TehranDayStart(t) == TehranDate(t) * 1440 - TehranOffsetMin
TehranDayEnd(t) == TehranDayStart(t) + 1440

\* TooEarly with the minute forgotten: only the hour is compared.
TooEarlyHourOnly(t) == TehranHour(t) < 23

\* cron line 350.
TooEarly(t) == TehranHour(t) < 23 \/ (TehranHour(t) = 23 /\ TehranMinute(t) < 30)

Dates == 0..TehranDate(Instant(MaxTick))

\* ------------------------------------------------------------------------
\* str.upper() on the strings the model uses.
Upper(s) ==
    CASE s = "close_long" -> "CLOSE_LONG"
      [] s = "btcusdt" -> "BTCUSDT"
      [] s = "n/a" -> "N/A"
      [] OTHER -> s

\* ------------------------------------------------------------------------
\* POST /tv payloads (TVPayload): the well-formed ones, and the ones with
\* one field missing, non-positive or wrong.
Payload(symbol, side) ==
    [symbol |-> Some(symbol), side |-> Some(side), price |-> Some(100),
     time |-> Some("2024-01-01T00:00:00Z"), secret |-> Some(WEBHOOK_SECRET)]

ValidPayloads ==
    {Payload("BTCUSDT", side) :
        side \in {"LONG", "SHORT", "CLOSE_LONG", "CLOSE_SHORT", "close_long"}}
    \cup {Payload("btcusdt", side) : side \in {"LONG", "CLOSE_LONG"}}

FaultyPayloads ==
    UNION {{[pl EXCEPT !.symbol = None],
            [pl EXCEPT !.side = None],
            [pl EXCEPT !.price = None],
            [pl EXCEPT !.price = Some(0)],
            [pl EXCEPT !.time = None],
            [pl EXCEPT !.secret = None],
            [pl EXCEPT !.secret = Some("wrong")]} :
           pl \in {Payload("BTCUSDT", "LONG"), Payload("BTCUSDT", "CLOSE_LONG")}}

Payloads == ValidPayloads \cup FaultyPayloads

VARIABLES
    clock,        \* index of the current instant (now_dt)
    expires,      \* users.subscription_expires_at, per telegram_id
    marker,       \* meta['last_summary_tehran_date']
    signals,      \* the signals table, in insertion order
    nextId,       \* the next value of the signals id sequence (SERIAL)
    tvpc, tvSid, tvRef, tvStatus, tvSentTo, tvFailed,     \* POST /tv requests
    cronpc, cronNow, cronTodo, cronUsers, cronFailed, cronResult,  \* GET /cron requests
    cronSummary,  \* per request, the figures of the summary it built
    batches,      \* per Tehran date, the summary batches dispatched so far
    trial,        \* users.trial_started_at is set, per telegram_id
    payments,     \* per telegram_id, the payments rows by status
    tgLast,       \* the last update POST /tg/webhook handled and what it sent
    tgCount       \* updates handled so far

tvVars == <<signals, nextId, tvpc, tvSid, tvRef, tvStatus, tvSentTo, tvFailed>>
cronVars == <<marker, cronpc, cronNow, cronTodo, cronUsers, cronFailed, cronResult,
              cronSummary, batches>>
tgVars == <<trial, payments, tgLast, tgCount>>
vars == <<clock, expires, tvVars, cronVars, tgVars>>

\* now_dt()
Now == Instant(clock)

\* ------------------------------------------------------------------------
\* DB helpers

\* get_meta("last_summary_tehran_date")
get_meta == marker

\* list_active_users without the comparison with the current time: every
\* user with an expiry is listed.
list_active_usersNoClock(t) ==
    {u \in Users : IsSome(expires[u])}

\* list_active_users at time t
list_active_users(t) ==
    {u \in Users : IsSome(expires[u]) /\ t <= Val(expires[u])}

Rows == {signals[i] : i \in 1..Len(signals)}
RowById(id) == CHOOSE r \in Rows : r.id = id

SetMax(S) == CHOOSE x \in S : \A y \in S : y <= x

SetMin(S) == CHOOSE x \in S : \A y \in S : x <= y

\* find_ref_open_id with ORDER BY id ASC: the oldest matching open.
find_ref_open_idOldest(symbol, close_side) ==
    LET s == Upper(close_side)
        open_side == IF s = "CLOSE_LONG" THEN Some("LONG")
                     ELSE IF s = "CLOSE_SHORT" THEN Some("SHORT") ELSE None
        ids == {r.id : r \in {x \in Rows : IsSome(open_side) /\ x.symbol = symbol
                                           /\ x.side = Val(open_side)}}
    IN  IF ~IsSome(open_side) THEN None
        ELSE IF ids = {} THEN None ELSE Some(SetMin(ids))

\* find_ref_open_id with the symbol left out of the WHERE clause.
find_ref_open_idAnySymbol(symbol, close_side) ==
    LET s == Upper(close_side)
        open_side == IF s = "CLOSE_LONG" THEN Some("LONG")
                     ELSE IF s = "CLOSE_SHORT" THEN Some("SHORT") ELSE None
        ids == {r.id : r \in {x \in Rows : IsSome(open_side) /\ x.side = Val(open_side)}}
    IN  IF ~IsSome(open_side) THEN None
        ELSE IF ids = {} THEN None ELSE Some(SetMax(ids))

\* find_ref_open_id with position tracking: the latest matching open that
\* no stored close refers to yet.
find_ref_open_idUnclosed(symbol, close_side) ==
    LET s == Upper(close_side)
        open_side == IF s = "CLOSE_LONG" THEN Some("LONG")
                     ELSE IF s = "CLOSE_SHORT" THEN Some("SHORT") ELSE None
        ids == {r.id : r \in {x \in Rows : /\ IsSome(open_side) /\ x.symbol = symbol
                                           /\ x.side = Val(open_side)
                                           /\ \A c \in Rows : c.ref_open_id # Some(x.id)}}
    IN  IF ~IsSome(open_side) THEN None
        ELSE IF ids = {} THEN None ELSE Some(SetMax(ids))

\* find_ref_open_id
find_ref_open_id(symbol, close_side) ==
    LET s == Upper(close_side)
        open_side == IF s = "CLOSE_LONG" THEN Some("LONG")
                     ELSE IF s = "CLOSE_SHORT" THEN Some("SHORT") ELSE None
        ids == {r.id : r \in {x \in Rows : IsSome(open_side) /\ x.symbol = symbol
                                           /\ x.side = Val(open_side)}}
    IN  IF ~IsSome(open_side) THEN None
        ELSE IF ids = {} THEN None ELSE Some(SetMax(ids))

\* The row save_signal inserts.
NewRow(id, symbol, side, price, t) ==
    [id |-> id, symbol |-> symbol, side |-> side, price |-> price, time |-> t,
     created_at |-> Now, ref_open_id |-> None, pnl_pct |-> None, closed_at |-> None]

\* update_signal_ref with the WHERE clause left out: every row is updated.
update_signal_refNoWhere(sid, ref) ==
    IF IsSome(ref) /\ Val(ref) # 0
    THEN [i \in 1..Len(signals) |-> [signals[i] EXCEPT !.ref_open_id = ref]]
    ELSE signals

\* update_signal_ref with its two arguments exchanged: the open is tagged
\* with the id of the close.
update_signal_refOnOpen(sid, ref) ==
    IF IsSome(ref) /\ Val(ref) # 0
    THEN [i \in 1..Len(signals) |->
            IF signals[i].id = Val(ref)
            THEN [signals[i] EXCEPT !.ref_open_id = Some(sid)]
            ELSE signals[i]]
    ELSE signals

\* update_signal_ref aimed at the newest row of the table instead of sid.
update_signal_refNewestRow(sid, ref) ==
    IF IsSome(ref) /\ Val(ref) # 0
    THEN [i \in 1..Len(signals) |->
            IF i = Len(signals)
            THEN [signals[i] EXCEPT !.ref_open_id = ref]
            ELSE signals[i]]
    ELSE signals

\* update_signal_ref: the signals table after the call
update_signal_ref(sid, ref) ==
    IF IsSome(ref) /\ Val(ref) # 0
    THEN [i \in 1..Len(signals) |->
            IF signals[i].id = sid
            THEN [signals[i] EXCEPT !.ref_open_id = ref]
            ELSE signals[i]]
    ELSE signals

IsCloseSide(side) == side \in {"CLOSE_LONG", "CLOSE_SHORT"}

\* ------------------------------------------------------------------------
\* build_daily_summary.  A PnL is a fraction; the model keeps it in
\* hundredths of a percent (the unit pct() prints, "%.2f" of x*100), and a
\* win rate in tenths of a percent ("%.1f").

\* Lines 383-389: the opens of the window.
WindowOpens(start, end) ==
    {r \in Rows : r.created_at >= start /\ r.created_at < end
                  /\ r.side \in {"LONG", "SHORT"}}

\* Lines 392-399: is the row one of the closes of the window?
IsWindowClose(r, start, end) ==
    /\ r.created_at >= start /\ r.created_at < end
    /\ r.side \in {"CLOSE_LONG", "CLOSE_SHORT"}
    /\ IsSome(r.ref_open_id)

\* The loop with the CLOSE_LONG formula applied to both directions.
ClosePnlLongFormula(c) ==
    LET op == {o \in Rows : o.id = Val(c.ref_open_id)}
    IN  IF op = {} THEN None
        ELSE LET o == CHOOSE x \in op : TRUE
             IN  IF o.price <= 0 THEN None
                 ELSE IF (Upper(c.side) = "CLOSE_LONG" /\ Upper(o.side) = "LONG")
                         \/ (Upper(c.side) = "CLOSE_SHORT" /\ Upper(o.side) = "SHORT")
                      THEN Some(((c.price - o.price) * 10000) \div o.price)
                 ELSE None

\* The loop without the open_price <= 0 test: such a close counts with a
\* PnL of zero.
ClosePnlZeroOnBadOpen(c) ==
    LET op == {o \in Rows : o.id = Val(c.ref_open_id)}
    IN  IF op = {} THEN None
        ELSE LET o == CHOOSE x \in op : TRUE
             IN  IF o.price <= 0 THEN Some(0)
                 ELSE IF Upper(c.side) = "CLOSE_LONG" /\ Upper(o.side) = "LONG"
                      THEN Some(((c.price - o.price) * 10000) \div o.price)
                 ELSE IF Upper(c.side) = "CLOSE_SHORT" /\ Upper(o.side) = "SHORT"
                      THEN Some(((o.price - c.price) * 10000) \div o.price)
                 ELSE None

\* Lines 408-423: the PnL of one close of the loop, None where the loop
\* says continue.
ClosePnl(c) ==
    LET op == {o \in Rows : o.id = Val(c.ref_open_id)}
    IN  IF op = {} THEN None
        ELSE LET o == CHOOSE x \in op : TRUE
                 open_side == Upper(o.side)
                 open_price == o.price
                 close_price == c.price
             IN  IF open_price <= 0 THEN None
                 ELSE IF Upper(c.side) = "CLOSE_LONG" /\ open_side = "LONG"
                      THEN Some(((close_price - open_price) * 10000) \div open_price)
                 ELSE IF Upper(c.side) = "CLOSE_SHORT" /\ open_side = "SHORT"
                      THEN Some(((open_price - close_price) * 10000) \div open_price)
                 ELSE None

\* Lines 425-431: the running figures after a close of PnL pnl.
Accumulate(acc, c, pnl) ==
    [wins |-> IF pnl > 0 THEN acc.wins + 1 ELSE acc.wins,
     losses |-> IF pnl > 0 THEN acc.losses
                ELSE IF pnl < 0 THEN acc.losses + 1 ELSE acc.losses,
     total_pnl |-> acc.total_pnl + pnl,
     best |-> IF acc.best = None \/ pnl > Val(acc.best).pnl
              THEN Some([symbol |-> RowById(Val(c.ref_open_id)).symbol, pnl |-> pnl,
                         open_id |-> Val(c.ref_open_id), close_id |-> c.id])
              ELSE acc.best]

\* Lines 401-431: the loop over the closes, in id order, from row i on.
RECURSIVE SummaryLoop(_, _, _, _)
SummaryLoop(i, acc, start, end) ==
    IF i > Len(signals) THEN acc
    ELSE LET c == signals[i]
             pnl == IF IsWindowClose(c, start, end) THEN ClosePnl(c) ELSE None
         IN  SummaryLoop(i + 1,
                         IF IsSome(pnl) THEN Accumulate(acc, c, Val(pnl)) ELSE acc,
                         start, end)

\* Line 434: the win rate, None where the message says N/A.
WinRate(wins, total_trades) ==
    IF total_trades > 0
    THEN Some((wins * 2000 + total_trades) \div (2 * total_trades))
    ELSE None

\* Lines 381-450: the figures of the message.
build_daily_summary(start, end) ==
    LET acc == SummaryLoop(1, [wins |-> 0, losses |-> 0, total_pnl |-> 0, best |-> None],
                           start, end)
        total_trades == acc.wins + acc.losses
    IN  [opens |-> Cardinality(WindowOpens(start, end)),
         total_trades |-> total_trades,
         wins |-> acc.wins,
         losses |-> acc.losses,
         winrate |-> WinRate(acc.wins, total_trades),
         best |-> acc.best,
         total_pnl |-> acc.total_pnl]

\* ------------------------------------------------------------------------
\* What POST /tg/webhook did with an update: who sent it, the command, its
\* arguments, the status of the response, the reply to the sender's chat
\* and every chat id a message was posted to.
Update(status, from, cmd, target, days, reply, recipients) ==
    [status |-> status, from |-> from, cmd |-> cmd, target |-> target, days |-> days,
     reply |-> reply, recipients |-> recipients]

NoUpdate == Update(0, 0, "none", 0, 0, "none", {})

\* ------------------------------------------------------------------------
Init ==
    /\ clock = 1
    /\ expires = (1 :> Some(Instant(MaxTick) + 1440) @@ 2 :> Some(Instant(8)) @@ 3 :> None)
    /\ marker = None
    /\ signals = <<>>
    /\ nextId = 1
    /\ tvpc = [q \in TvProcs |-> "idle"]
    /\ tvSid = [q \in TvProcs |-> None]
    /\ tvRef = [q \in TvProcs |-> None]
    /\ tvStatus = [q \in TvProcs |-> 0]
    /\ tvSentTo = [q \in TvProcs |-> {}]
    /\ tvFailed = [q \in TvProcs |-> {}]
    /\ cronpc = [p \in CronProcs |-> "idle"]
    /\ cronNow = [p \in CronProcs |-> None]
    /\ cronTodo = [p \in CronProcs |-> {}]
    /\ cronUsers = [p \in CronProcs |-> {}]
    /\ cronFailed = [p \in CronProcs |-> {}]
    /\ cronResult = [p \in CronProcs |-> "none"]
    /\ cronSummary = [p \in CronProcs |-> None]
    /\ batches = [d \in Dates |-> 0]
    /\ trial = (1 :> TRUE @@ 2 :> TRUE @@ 3 :> FALSE)
    /\ payments = [u \in Users |-> [pending |-> 0, approved |-> 0]]
    /\ tgLast = NoUpdate
    /\ tgCount = 0

\* The clock moves on to the next instant.
Tick ==
    /\ clock < MaxTick
    /\ clock' = clock + 1
    /\ UNCHANGED <<expires, tvVars, cronVars, tgVars>>

\* ------------------------------------------------------------------------
\* POST /tv (tv_hook)

\* The secret check reduced to "a secret was sent".
SecretOkAnySecret(pl) == IsSome(pl.secret)

SecretOk(pl) == pl.secret = Some(WEBHOOK_SECRET)

\* Lines 455-463: secret check, then save_signal.
TvHook(q, pl) ==
    /\ tvpc[q] = "idle"
    /\ IF ~SecretOk(pl)
       THEN \* 401 invalid secret
            /\ tvpc' = [tvpc EXCEPT ![q] = "done"]
            /\ tvStatus' = [tvStatus EXCEPT ![q] = 401]
            /\ UNCHANGED <<signals, nextId, tvSid>>
       ELSE IF pl.time = None
       THEN \* '' is no TIMESTAMPTZ: the INSERT statement is refused
            /\ tvpc' = [tvpc EXCEPT ![q] = "done"]
            /\ tvStatus' = [tvStatus EXCEPT ![q] = 500]
            /\ UNCHANGED <<signals, nextId, tvSid>>
       ELSE IF pl.price = None
       THEN \* price is NOT NULL: the row is refused, the id is consumed
            /\ nextId <= MaxId
            /\ nextId' = nextId + 1
            /\ tvpc' = [tvpc EXCEPT ![q] = "done"]
            /\ tvStatus' = [tvStatus EXCEPT ![q] = 500]
            /\ UNCHANGED <<signals, tvSid>>
       ELSE LET symbol == IF IsSome(pl.symbol) THEN Val(pl.symbol) ELSE "UNKNOWN"
                side == Upper(IF IsSome(pl.side) THEN Val(pl.side) ELSE "N/A")
            IN  /\ nextId <= MaxId
                /\ signals' = Append(signals,
                                NewRow(nextId, symbol, side, Val(pl.price), Val(pl.time)))
                /\ nextId' = nextId + 1
                /\ tvSid' = [tvSid EXCEPT ![q] = Some(nextId)]
                /\ tvpc' = [tvpc EXCEPT ![q] = IF IsCloseSide(side) THEN "find" ELSE "notify"]
                /\ UNCHANGED tvStatus
    /\ UNCHANGED <<tvRef, tvSentTo, tvFailed, clock, expires, cronVars, tgVars>>

\* Line 467: ref = find_ref_open_id(symbol, side)
TvFind(q) ==
    /\ tvpc[q] = "find"
    /\ LET row == RowById(Val(tvSid[q]))
           ref == find_ref_open_id(row.symbol, row.side)
       IN  /\ tvRef' = [tvRef EXCEPT ![q] = ref]
           /\ tvpc' = [tvpc EXCEPT ![q] = IF IsSome(ref) /\ Val(ref) # 0 THEN "update" ELSE "notify"]
    /\ UNCHANGED <<signals, nextId, tvSid, tvStatus, tvSentTo, tvFailed, clock, expires, cronVars, tgVars>>

\* Lines 468-470: update_signal_ref(sid, ref)
TvUpdateRef(q) ==
    /\ tvpc[q] = "update"
    /\ signals' = update_signal_ref(Val(tvSid[q]), tvRef[q])
    /\ tvpc' = [tvpc EXCEPT ![q] = "notify"]
    /\ UNCHANGED <<nextId, tvSid, tvRef, tvStatus, tvSentTo, tvFailed, clock, expires, cronVars, tgVars>>

\* A fan-out that stops at the first post that raises, the exception
\* reaching the caller as a 500.
FanOutOutcomeAbort(users, F) ==
    [attempted |-> {u \in users : \A f \in F : u <= f},
     status |-> IF F = {} THEN 200 ELSE 500]

\* Lines 486-496: the posts attempted and the status of the response when
\* the posts to the users of F raise: each exception is swallowed (lines
\* 494-495), the loop goes on, the handler returns ok.
FanOutOutcome(users, F) ==
    [attempted |-> users, status |-> 200]

\* Lines 472-496: format the message, list the active users, post to each
\* (any subset of the posts may raise; each exception is swallowed), answer.
TvNotify(q) ==
    /\ tvpc[q] = "notify"
    /\ LET users == list_active_users(Now)
       IN  \E F \in SUBSET users :
             /\ tvSentTo' = [tvSentTo EXCEPT ![q] = FanOutOutcome(users, F).attempted]
             /\ tvFailed' = [tvFailed EXCEPT ![q] = F \cap FanOutOutcome(users, F).attempted]
             /\ tvStatus' = [tvStatus EXCEPT ![q] = FanOutOutcome(users, F).status]
    /\ tvpc' = [tvpc EXCEPT ![q] = "done"]
    /\ UNCHANGED <<signals, nextId, tvSid, tvRef, clock, expires, cronVars, tgVars>>

\* The response has been delivered; the worker slot is free again.
TvReturn(q) ==
    /\ tvpc[q] = "done"
    /\ tvpc' = [tvpc EXCEPT ![q] = "idle"]
    /\ tvSid' = [tvSid EXCEPT ![q] = None]
    /\ tvRef' = [tvRef EXCEPT ![q] = None]
    /\ tvStatus' = [tvStatus EXCEPT ![q] = 0]
    /\ tvSentTo' = [tvSentTo EXCEPT ![q] = {}]
    /\ tvFailed' = [tvFailed EXCEPT ![q] = {}]
    /\ UNCHANGED <<signals, nextId, clock, expires, cronVars, tgVars>>

\* ------------------------------------------------------------------------
\* GET /cron (cron).  The handler is a plain function, so the server runs
\* each request on its own thread: the statements of two requests interleave.

\* Lines 345-351: token check, the clock is read once, too-early check.
CronStart(p, token) ==
    /\ cronpc[p] = "idle"
    /\ IF CRON_TOKEN # "" /\ token # Some(CRON_TOKEN)
       THEN \* 401 invalid token
            /\ cronpc' = [cronpc EXCEPT ![p] = "done"]
            /\ cronResult' = [cronResult EXCEPT ![p] = "unauthorized"]
            /\ UNCHANGED cronNow
       ELSE IF TooEarly(Now)
       THEN /\ cronpc' = [cronpc EXCEPT ![p] = "done"]
            /\ cronResult' = [cronResult EXCEPT ![p] = "too_early"]
            /\ cronNow' = [cronNow EXCEPT ![p] = Some(Now)]
       ELSE /\ cronpc' = [cronpc EXCEPT ![p] = "getmeta"]
            /\ cronNow' = [cronNow EXCEPT ![p] = Some(Now)]
            /\ UNCHANGED cronResult
    /\ UNCHANGED <<marker, cronTodo, cronUsers, cronFailed, cronSummary, batches, clock, expires, tvVars, tgVars>>

\* The Tehran date of the instant a request read at line 348.
CronDate(p) == TehranDate(Val(cronNow[p]))

\* The marker check reduced to "a marker is set": any earlier date counts
\* as already sent.
CronGetMetaAnyMarker(p) ==
    /\ cronpc[p] = "getmeta"
    /\ IF IsSome(get_meta)
       THEN /\ cronpc' = [cronpc EXCEPT ![p] = "done"]
            /\ cronResult' = [cronResult EXCEPT ![p] = "already_sent"]
       ELSE /\ cronpc' = [cronpc EXCEPT ![p] = "list"]
            /\ UNCHANGED cronResult
    /\ UNCHANGED <<marker, cronNow, cronTodo, cronUsers, cronFailed, cronSummary, batches, clock, expires, tvVars, tgVars>>

\* The marker check behind a lock: a request that finds another request
\* dispatching for the same date answers already_sent.
CronGetMetaLocked(p) ==
    /\ cronpc[p] = "getmeta"
    /\ IF \/ get_meta = Some(CronDate(p))
          \/ \E r \in CronProcs \ {p} :
                cronpc[r] \in {"list", "send"} /\ CronDate(r) = CronDate(p)
       THEN /\ cronpc' = [cronpc EXCEPT ![p] = "done"]
            /\ cronResult' = [cronResult EXCEPT ![p] = "already_sent"]
       ELSE /\ cronpc' = [cronpc EXCEPT ![p] = "list"]
            /\ UNCHANGED cronResult
    /\ UNCHANGED <<marker, cronNow, cronTodo, cronUsers, cronFailed, cronSummary, batches, clock, expires, tvVars, tgVars>>

\* Lines 353-356: read the marker, compare with today's Tehran date.
CronGetMeta(p) ==
    /\ cronpc[p] = "getmeta"
    /\ IF get_meta = Some(CronDate(p))
       THEN /\ cronpc' = [cronpc EXCEPT ![p] = "done"]
            /\ cronResult' = [cronResult EXCEPT ![p] = "already_sent"]
       ELSE /\ cronpc' = [cronpc EXCEPT ![p] = "list"]
            /\ UNCHANGED cronResult
    /\ UNCHANGED <<marker, cronNow, cronTodo, cronUsers, cronFailed, cronSummary, batches, clock, expires, tvVars, tgVars>>

\* Lines 359-361: build the summary, read the active users: a batch starts.
CronListUsers(p) ==
    /\ cronpc[p] = "list"
    /\ LET users == list_active_users(Now)
       IN  /\ cronUsers' = [cronUsers EXCEPT ![p] = users]
           /\ cronTodo' = [cronTodo EXCEPT ![p] = users]
    /\ cronSummary' = [cronSummary EXCEPT ![p] =
            Some(build_daily_summary(TehranDayStart(Val(cronNow[p])),
                                     TehranDayEnd(Val(cronNow[p]))))]
    /\ batches' = [batches EXCEPT ![CronDate(p)] = @ + 1]
    /\ cronpc' = [cronpc EXCEPT ![p] = "send"]
    /\ UNCHANGED <<marker, cronNow, cronFailed, cronResult, clock, expires, tvVars, tgVars>>

\* A send error that is not swallowed: the request ends there.
AfterSendErrorAbort(p, uid) ==
    /\ cronpc' = [cronpc EXCEPT ![p] = "done"]
    /\ cronResult' = [cronResult EXCEPT ![p] = "error"]
    /\ cronFailed' = [cronFailed EXCEPT ![p] = @ \cup {uid}]
    /\ UNCHANGED cronTodo

\* What happens to the loop when a send has raised: the exception is
\* swallowed (lines 367-368) and the loop goes on.
AfterSendError(p, uid) ==
    /\ cronTodo' = [cronTodo EXCEPT ![p] = @ \ {uid}]
    /\ cronFailed' = [cronFailed EXCEPT ![p] = @ \cup {uid}]
    /\ UNCHANGED <<cronpc, cronResult>>

\* Lines 362-368: one iteration of the fan-out; the send succeeds or raises.
CronSend(p) ==
    /\ cronpc[p] = "send"
    /\ \E uid \in cronTodo[p] :
         \/ /\ cronTodo' = [cronTodo EXCEPT ![p] = @ \ {uid}]
            /\ UNCHANGED <<cronFailed, cronpc, cronResult>>
         \/ AfterSendError(p, uid)
    /\ UNCHANGED <<marker, cronNow, cronUsers, cronSummary, batches, clock, expires, tvVars, tgVars>>

\* set_meta whose write is lost: the marker keeps its value.
set_metaLost(value) == marker

\* set_meta("last_summary_tehran_date", value): the marker after the call
set_meta(value) == Some(value)

\* The marker written as soon as the recipients are known, before the sends.
CronSetMetaEarly(p) ==
    /\ cronpc[p] = "send"
    /\ marker' = set_meta(CronDate(p))
    /\ cronpc' = [cronpc EXCEPT ![p] = "done"]
    /\ cronResult' = [cronResult EXCEPT ![p] = "sent"]
    /\ UNCHANGED <<cronNow, cronTodo, cronUsers, cronFailed, cronSummary, batches, clock, expires, tvVars, tgVars>>

\* Lines 369-370: the loop is over; write the marker, answer.
CronSetMeta(p) ==
    /\ cronpc[p] = "send"
    /\ cronTodo[p] = {}
    /\ marker' = set_meta(CronDate(p))
    /\ cronpc' = [cronpc EXCEPT ![p] = "done"]
    /\ cronResult' = [cronResult EXCEPT ![p] = "sent"]
    /\ UNCHANGED <<cronNow, cronTodo, cronUsers, cronFailed, cronSummary, batches, clock, expires, tvVars, tgVars>>

\* Lines 360-369: a run that stops before its marker write. The database
\* statements of build_daily_summary, list_active_users and set_meta are
\* outside any try: when one raises (or the worker dies) the request ends
\* there, with the sends made so far made and the marker not written.
CronAbort(p) ==
    /\ cronpc[p] \in {"list", "send"}
    /\ batches[CronDate(p)] < MaxBatches
    /\ cronpc' = [cronpc EXCEPT ![p] = "done"]
    /\ cronResult' = [cronResult EXCEPT ![p] = "error"]
    /\ UNCHANGED <<marker, cronNow, cronTodo, cronUsers, cronFailed, cronSummary, batches, clock, expires, tvVars, tgVars>>

\* The response has been delivered; the worker slot is free again.
CronReturn(p) ==
    /\ cronpc[p] = "done"
    /\ cronpc' = [cronpc EXCEPT ![p] = "idle"]
    /\ cronNow' = [cronNow EXCEPT ![p] = None]
    /\ cronTodo' = [cronTodo EXCEPT ![p] = {}]
    /\ cronUsers' = [cronUsers EXCEPT ![p] = {}]
    /\ cronFailed' = [cronFailed EXCEPT ![p] = {}]
    /\ cronResult' = [cronResult EXCEPT ![p] = "none"]
    /\ cronSummary' = [cronSummary EXCEPT ![p] = None]
    /\ UNCHANGED <<marker, batches, clock, expires, tvVars, tgVars>>

TokenInputs == {Some(CRON_TOKEN), Some("wrong"), None}

\* ------------------------------------------------------------------------
\* POST /tg/webhook (tg_webhook).  The handler is a coroutine whose database
\* statements come before its sends, with no await between them: an update
\* is one step.  Chats are private: chat_id is the sender's id.  Every
\* sender has a users row (lines 514-519 insert it).

\* The ids a /confirm can name: the users, and one id without a users row.
Targets == Users \cup {4}

\* The day counts a /confirm can carry.
DayInputs == {-1, 0, 1}

\* Lines 500-503: the secret header is wrong; nothing is read.
TgBadSecret(sec, uid) ==
    /\ tgCount < MaxUpdates
    /\ sec # TELEGRAM_WEBHOOK_SECRET
    /\ tgCount' = tgCount + 1
    /\ tgLast' = Update(401, uid, "none", 0, 0, "none", {})
    /\ UNCHANGED <<trial, payments, clock, expires, tvVars, cronVars>>

\* ensure_trial: the trial_started_at and subscription_expires_at of the
\* users table after the call.
ensure_trial(telegram_id) ==
    IF trial[telegram_id]
    THEN [trial |-> trial, expires |-> expires]
    ELSE [trial |-> [trial EXCEPT ![telegram_id] = TRUE],
          expires |-> [expires EXCEPT ![telegram_id] = Some(Now + TRIAL_DAYS * 1440)]]

\* Lines 530-540: /start.
TgStart(uid) ==
    /\ tgCount < MaxUpdates
    /\ tgCount' = tgCount + 1
    /\ trial' = ensure_trial(uid).trial
    /\ expires' = ensure_trial(uid).expires
    /\ tgLast' = Update(200, uid, "start", 0, 0, "welcome", {uid})
    /\ UNCHANGED <<payments, clock, tvVars, cronVars>>

\* Lines 598-606: /tx <txid>: a pending payment, a reply, a note to the admins.
TgTx(uid) ==
    /\ tgCount < MaxUpdates
    /\ payments[uid].pending + payments[uid].approved < MaxPayments
    /\ tgCount' = tgCount + 1
    /\ payments' = [payments EXCEPT ![uid].pending = @ + 1]
    /\ tgLast' = Update(200, uid, "tx", 0, 0, "registered", {uid} \cup ADMIN_IDS)
    /\ UNCHANGED <<trial, clock, expires, tvVars, cronVars>>

\* The admin test of lines 630 and 646 passed by everyone.
IsAdminAnyone(uid) == TRUE

\* Lines 630, 646: str(uid) in ADMIN_IDS
IsAdmin(uid) == uid \in ADMIN_IDS

\* extend_subscription counting from now whatever the current expiry.
extend_subscriptionFromNow(telegram_id, days) ==
    Now + days * 1440

\* extend_subscription: the new expiry (lines 150-156); line 157 writes it
\* to the user's row.
extend_subscription(telegram_id, days) ==
    LET base == IF /\ telegram_id \in Users
                   /\ IsSome(expires[telegram_id])
                   /\ Val(expires[telegram_id]) > Now
                THEN Val(expires[telegram_id])
                ELSE Now
    IN  base + days * 1440

\* Lines 629-643: /confirm <user_id> <days>; days is None for a command
\* with fewer than two arguments.
TgConfirm(uid, target, days) ==
    /\ tgCount < MaxUpdates
    /\ tgCount' = tgCount + 1
    /\ IF ~IsAdmin(uid)
       THEN /\ tgLast' = Update(200, uid, "confirm", target, 0, "admin_only", {uid})
            /\ UNCHANGED <<expires, payments>>
       ELSE IF days = None
       THEN /\ tgLast' = Update(200, uid, "confirm", target, 0, "usage", {uid})
            /\ UNCHANGED <<expires, payments>>
       ELSE /\ expires' = IF target \in Users
                          THEN [expires EXCEPT ![target] =
                                   Some(extend_subscription(target, Val(days)))]
                          ELSE expires
            /\ payments' = IF target \in Users
                           THEN [payments EXCEPT ![target] =
                                    [pending |-> 0, approved |-> @.approved + @.pending]]
                           ELSE payments
            /\ tgLast' = Update(200, uid, "confirm", target, Val(days), "extended",
                                {uid, target})
    /\ UNCHANGED <<trial, clock, tvVars, cronVars>>

\* Lines 645-655: /broadcast <text>; body tells whether a text follows.
TgBroadcast(uid, body) ==
    /\ tgCount < MaxUpdates
    /\ tgCount' = tgCount + 1
    /\ tgLast' = IF ~IsAdmin(uid)
                 THEN Update(200, uid, "broadcast", 0, 0, "admin_only", {uid})
                 ELSE IF ~body
                 THEN Update(200, uid, "broadcast", 0, 0, "empty", {uid})
                 ELSE Update(200, uid, "broadcast", 0, 0, "sent", Users \cup {uid})
    /\ UNCHANGED <<trial, payments, clock, expires, tvVars, cronVars>>

\* ------------------------------------------------------------------------
\* Specifications

\* One ingestion at a time: tv_hook is a coroutine and lines 455-483 hold no
\* await, so one event loop runs the store steps of a request in one piece.
TvHookSerial(q, pl) ==
    /\ \A r \in TvProcs : tvpc[r] = "idle"
    /\ TvHook(q, pl)

NextTv ==
    \/ \E q \in TvProcs, pl \in Payloads : TvHookSerial(q, pl)
    \/ \E q \in TvProcs : TvFind(q)
    \/ \E q \in TvProcs : TvUpdateRef(q)
    \/ \E q \in TvProcs : TvNotify(q)
    \/ \E q \in TvProcs : TvReturn(q)

SpecTv == Init /\ [][NextTv]_vars

\* Several workers on one database: every store statement is its own
\* transaction (db_exec), so the statements of two ingestions interleave.
NextTvConc ==
    \/ \E q \in TvProcs, pl \in ValidPayloads : TvHook(q, pl)
    \/ \E q \in TvProcs : TvFind(q)
    \/ \E q \in TvProcs : TvUpdateRef(q)
    \/ \E q \in TvProcs : TvNotify(q)
    \/ \E q \in TvProcs : TvReturn(q)

SpecTvConc == Init /\ [][NextTvConc]_vars

\* The daily-summary trigger with overlapping requests.
NextCron ==
    \/ Tick
    \/ \E p \in CronProcs, token \in TokenInputs : CronStart(p, token)
    \/ \E p \in CronProcs : CronGetMeta(p)
    \/ \E p \in CronProcs : CronListUsers(p)
    \/ \E p \in CronProcs : CronSend(p)
    \/ \E p \in CronProcs : CronSetMeta(p)
    \/ \E p \in CronProcs : CronReturn(p)

SpecCron == Init /\ [][NextCron]_vars

\* The daily-summary trigger where a request that has passed the 23:30
\* test runs on to its return: the handler has no wait of its own, its
\* database statements and its sends (timeout 20 s) end.
CronStep(p) ==
    CronGetMeta(p) \/ CronListUsers(p) \/ CronSend(p) \/ CronSetMeta(p)

SpecCronLive == SpecCron /\ \A p \in CronProcs : WF_vars(CronStep(p))

\* The daily-summary trigger with requests that do not overlap: a request
\* starts only when no other is being handled.
CronStartSerial(p, token) ==
    /\ \A r \in CronProcs : cronpc[r] = "idle"
    /\ CronStart(p, token)

NextCronSerial ==
    \/ Tick
    \/ \E p \in CronProcs, token \in TokenInputs : CronStartSerial(p, token)
    \/ \E p \in CronProcs : CronGetMeta(p)
    \/ \E p \in CronProcs : CronListUsers(p)
    \/ \E p \in CronProcs : CronSend(p)
    \/ \E p \in CronProcs : CronSetMeta(p)
    \/ \E p \in CronProcs : CronReturn(p)

SpecCronSerial == Init /\ [][NextCronSerial]_vars

\* Ingestions with prices that win, lose and break even, and the summary
\* of the day: one request at a time, served by the first worker, the clock
\* moving between requests in steps of four instants (23:00, 00:00 of the
\* next day, 23:59).
PricedPayload(side, price) ==
    [Payload("BTCUSDT", side) EXCEPT !.price = Some(price)]

SummaryPayloads ==
    {PricedPayload("LONG", 100), PricedPayload("LONG", 0), PricedPayload("SHORT", 50),
     PricedPayload("CLOSE_LONG", 90), PricedPayload("CLOSE_LONG", 100),
     PricedPayload("CLOSE_LONG", 110),
     PricedPayload("CLOSE_SHORT", 45), PricedPayload("CLOSE_SHORT", 55)}

Quiet ==
    /\ \A q \in TvProcs : tvpc[q] = "idle"
    /\ \A p \in CronProcs : cronpc[p] = "idle"

TickFour ==
    /\ Quiet
    /\ clock + 4 <= MaxTick
    /\ clock' = clock + 4
    /\ UNCHANGED <<expires, tvVars, cronVars, tgVars>>

TvHookQuiet(q, pl) == Quiet /\ q = SetMin(TvProcs) /\ TvHook(q, pl)

CronStartQuiet(p, token) == Quiet /\ p = SetMin(CronProcs) /\ CronStart(p, token)

NextSummary ==
    \/ TickFour
    \/ \E q \in TvProcs, pl \in SummaryPayloads : TvHookQuiet(q, pl)
    \/ \E q \in TvProcs : TvFind(q)
    \/ \E q \in TvProcs : TvUpdateRef(q)
    \/ \E q \in TvProcs : TvNotify(q)
    \/ \E q \in TvProcs : TvReturn(q)
    \/ \E p \in CronProcs : CronStartQuiet(p, Some(CRON_TOKEN))
    \/ \E p \in CronProcs : CronGetMeta(p)
    \/ \E p \in CronProcs : CronListUsers(p)
    \/ \E p \in CronProcs : CronSend(p)
    \/ \E p \in CronProcs : CronSetMeta(p)
    \/ \E p \in CronProcs : CronReturn(p)

SpecSummary == Init /\ [][NextSummary]_vars

\* Dispatch while time passes: ingestions of an open and the summary
\* trigger, one request at a time, with the clock free to move at every
\* step, between the reading of the recipients and the sends too.
NextDispatch ==
    \/ Tick
    \/ \E q \in TvProcs : TvHookQuiet(q, Payload("BTCUSDT", "LONG"))
    \/ \E q \in TvProcs : TvNotify(q)
    \/ \E q \in TvProcs : TvReturn(q)
    \/ \E p \in CronProcs : CronStartQuiet(p, Some(CRON_TOKEN))
    \/ \E p \in CronProcs : CronGetMeta(p)
    \/ \E p \in CronProcs : CronListUsers(p)
    \/ \E p \in CronProcs : CronSend(p)
    \/ \E p \in CronProcs : CronSetMeta(p)
    \/ \E p \in CronProcs : CronReturn(p)

SpecDispatch == Init /\ [][NextDispatch]_vars

\* The daily-summary trigger, requests not overlapping, where a run may
\* stop before its marker write.
NextCronAbort ==
    \/ Tick
    \/ \E p \in CronProcs, token \in TokenInputs : CronStartSerial(p, token)
    \/ \E p \in CronProcs : CronGetMeta(p)
    \/ \E p \in CronProcs : CronListUsers(p)
    \/ \E p \in CronProcs : CronSend(p)
    \/ \E p \in CronProcs : CronSetMeta(p)
    \/ \E p \in CronProcs : CronAbort(p)
    \/ \E p \in CronProcs : CronReturn(p)

SpecCronAbort == Init /\ [][NextCronAbort]_vars

\* The chat: updates from every user, the clock moving between them.
NextTg ==
    \/ TickFour
    \/ \E uid \in Users : TgBadSecret("wrong", uid)
    \/ \E uid \in Users : TgStart(uid)
    \/ \E uid \in Users : TgTx(uid)
    \/ \E uid \in Users, target \in Targets, d \in DayInputs : TgConfirm(uid, target, Some(d))
    \/ \E uid \in Users, target \in Targets : TgConfirm(uid, target, None)
    \/ \E uid \in Users, body \in BOOLEAN : TgBroadcast(uid, body)

SpecTg == Init /\ [][NextTg]_vars

\* The whole service.
Next ==
    \/ Tick
    \/ \E q \in TvProcs, pl \in Payloads : TvHook(q, pl)
    \/ \E q \in TvProcs : TvFind(q)
    \/ \E q \in TvProcs : TvUpdateRef(q)
    \/ \E q \in TvProcs : TvNotify(q)
    \/ \E q \in TvProcs : TvReturn(q)
    \/ \E p \in CronProcs, token \in TokenInputs : CronStart(p, token)
    \/ \E p \in CronProcs : CronGetMeta(p)
    \/ \E p \in CronProcs : CronListUsers(p)
    \/ \E p \in CronProcs : CronSend(p)
    \/ \E p \in CronProcs : CronSetMeta(p)
    \/ \E p \in CronProcs : CronAbort(p)
    \/ \E p \in CronProcs : CronReturn(p)
    \/ \E uid \in Users : TgBadSecret("wrong", uid)
    \/ \E uid \in Users : TgStart(uid)
    \/ \E uid \in Users : TgTx(uid)
    \/ \E uid \in Users, target \in Targets, d \in DayInputs : TgConfirm(uid, target, Some(d))
    \/ \E uid \in Users, target \in Targets : TgConfirm(uid, target, None)
    \/ \E uid \in Users, body \in BOOLEAN : TgBroadcast(uid, body)

Spec == Init /\ [][Next]_vars

\* ========================================================================
\* Properties

\* The open side a close side refers to (CLOSE_LONG -> LONG, CLOSE_SHORT -> SHORT).
OpenSideFor(side) == IF side = "CLOSE_LONG" THEN "LONG" ELSE "SHORT"

\* The stored opens a stored close may resolve to.
MatchingOpens(c) ==
    {o \in Rows : o.symbol = c.symbol /\ IsCloseSide(c.side) /\ o.side = OpenSideFor(c.side)}

AtOrAfterCutoff(t) ==
    TehranHour(t) = 23 /\ TehranMinute(t) >= 30

\* C1: with triggers that do not overlap, at most one summary batch is
\* dispatched per Tehran date; a trigger at or after 23:30 that ends has
\* either dispatched that one batch and written the marker, or answered
\* already_sent with the marker at its date and the batch count still one;
\* and a trigger that reaches the marker check after the day's batch finds
\* the marker at its date, so it will answer already_sent.
C1_OneBatchPerDay ==
    /\ \A d \in Dates : batches[d] <= 1
    /\ \A p \in CronProcs :
         /\ (cronpc[p] = "getmeta" /\ batches[CronDate(p)] >= 1)
               => marker = Some(CronDate(p))
         /\ (cronpc[p] = "done" /\ cronResult[p] \in {"sent", "already_sent"})
               => /\ AtOrAfterCutoff(Val(cronNow[p]))
                  /\ marker = Some(CronDate(p))
                  /\ batches[CronDate(p)] = 1
         /\ (cronpc[p] = "done" /\ IsSome(cronNow[p]) /\ AtOrAfterCutoff(Val(cronNow[p])))
               => cronResult[p] \in {"sent", "already_sent"}

\* A later trigger of the day has answered already_sent.
C1_Witness ==
    \E p \in CronProcs :
        /\ cronpc[p] = "done"
        /\ cronResult[p] = "already_sent"
        /\ batches[CronDate(p)] = 1

\* C2: the marker check of a request depends on the marker alone: while the
\* marker differs from the request's date the check lets it through to the
\* dispatch, whatever the other requests are doing, so two requests of one
\* date can both dispatch.
C2_CheckNotSerialised ==
    [][\A p \in CronProcs :
          (cronpc[p] = "getmeta" /\ cronpc'[p] # "getmeta" /\ marker # Some(CronDate(p)))
             => cronpc'[p] = "list"]_vars

\* Two requests are dispatching for the same date, the marker not yet written.
C2_Witness ==
    \E p, r \in CronProcs :
        /\ p # r
        /\ cronpc[p] = "send" /\ cronpc[r] = "send"
        /\ CronDate(p) = CronDate(r)
        /\ batches[CronDate(p)] = 2
        /\ marker # Some(CronDate(p))

\* C3: in a dispatching request the loop is left only when a send has been
\* attempted for every user of the list, whether or not sends have failed,
\* and it is left by writing the request's Tehran date to the marker and
\* answering "sent".
C3_FanOutSurvivesFailures ==
    [][\A p \in CronProcs :
          cronpc[p] = "send" =>
             IF cronTodo[p] # {}
             THEN /\ cronpc'[p] = "send"
                  /\ cronUsers'[p] = cronUsers[p]
                  /\ cronTodo'[p] \subseteq cronTodo[p]
             ELSE \/ cronpc'[p] = "send"
                  \/ /\ cronpc'[p] = "done"
                     /\ cronResult'[p] = "sent"
                     /\ marker' = Some(CronDate(p))]_vars

\* A request has ended with the marker written although some sends failed
\* and others did not.
C3_Witness ==
    \E p \in CronProcs :
        /\ cronpc[p] = "done" /\ cronResult[p] = "sent"
        /\ cronFailed[p] # {} /\ cronFailed[p] # cronUsers[p]
        /\ cronTodo[p] = {}
        /\ marker = Some(CronDate(p))

\* C4: a trigger that arrives before 23:30 Tehran time ends at once, with
\* too_early when its token is right, and changes neither the marker nor
\* the batches nor any fan-out.
C4_TooEarlyNoOp ==
    [][\A p \in CronProcs, token \in TokenInputs :
          (/\ TehranHour(Now) < 23 \/ (TehranHour(Now) = 23 /\ TehranMinute(Now) < 30)
           /\ CronStart(p, token))
             => /\ cronpc'[p] = "done"
                /\ (token = Some(CRON_TOKEN) => cronResult'[p] = "too_early")
                /\ cronResult'[p] \in {"too_early", "unauthorized"}
                /\ marker' = marker
                /\ batches' = batches
                /\ cronTodo' = cronTodo /\ cronUsers' = cronUsers]_vars

\* A trigger at 23:xx before the cutoff has answered too_early while a
\* marker of an earlier day is stored.
C4_Witness ==
    \E p \in CronProcs :
        /\ cronpc[p] = "done" /\ cronResult[p] = "too_early"
        /\ TehranHour(Val(cronNow[p])) = 23
        /\ IsSome(marker)

\* C5: when a close is resolved and opens of its symbol and complementary
\* side are stored, the lookup yields the highest id among them, and that
\* id is what is written to the close's ref_open_id.
C5_LatestOpen ==
    [][\A q \in TvProcs :
          /\ (tvpc[q] = "find" /\ tvpc'[q] # "find")
                => LET c == RowById(Val(tvSid[q]))
                   IN  MatchingOpens(c) # {}
                          => /\ tvRef'[q] = Some(SetMax({o.id : o \in MatchingOpens(c)}))
                             /\ tvpc'[q] = "update"
          /\ (tvpc[q] = "update" /\ tvpc'[q] # "update")
                => \E i \in 1..Len(signals') :
                      /\ signals'[i].id = Val(tvSid[q])
                      /\ signals'[i].ref_open_id = tvRef[q]]_vars

\* A close refers to the newer of two opens of its symbol and side.
C5_Witness ==
    \E c \in Rows : \E o1, o2 \in MatchingOpens(c) :
        /\ o1.id < o2.id /\ o2.id < c.id
        /\ c.ref_open_id = Some(o2.id)

\* C6: every stored signal with a reference is a close, and the reference is
\* the id of a stored signal of the same symbol and the complementary open
\* side.
C6_RefPointsToOpen ==
    \A r \in Rows :
        IsSome(r.ref_open_id) =>
            /\ IsCloseSide(r.side)
            /\ \E o \in Rows :
                  /\ o.id = Val(r.ref_open_id)
                  /\ o.symbol = r.symbol
                  /\ o.side = OpenSideFor(r.side)

\* A close is resolved while a newer open of another symbol is stored.
C6_Witness ==
    \E r \in Rows :
        /\ IsSome(r.ref_open_id)
        /\ \E x \in Rows :
              /\ x.symbol # r.symbol
              /\ x.side = OpenSideFor(r.side)
              /\ x.id > Val(r.ref_open_id)
              /\ x.id < r.id

\* The stored closes no request is resolving.
Settled(r) ==
    /\ IsCloseSide(r.side)
    /\ ~ \E q \in TvProcs : tvpc[q] \in {"find", "update"} /\ tvSid[q] = Some(r.id)

\* C7: a close whose lookup finds no open of its symbol and complementary
\* side goes on to the notification with the store untouched, the request
\* ends with status 200, and the close's ref_open_id and pnl_pct are null
\* and stay null through every later ingestion.
C7_UnresolvedStaysNull ==
    /\ [](\A q \in TvProcs :
            (tvpc[q] = "done" /\ IsSome(tvSid[q])) => tvStatus[q] = 200)
    /\ [][/\ \A q \in TvProcs :
               (tvpc[q] = "find" /\ tvpc'[q] # "find"
                  /\ MatchingOpens(RowById(Val(tvSid[q]))) = {})
                  => /\ tvpc'[q] = "notify"
                     /\ signals' = signals
                     /\ RowById(Val(tvSid[q])).ref_open_id = None
                     /\ RowById(Val(tvSid[q])).pnl_pct = None
          /\ \A i \in 1..Len(signals) :
               (Settled(signals[i]) /\ signals[i].ref_open_id = None)
                  => /\ signals'[i].id = signals[i].id
                     /\ signals'[i].ref_open_id = None
                     /\ signals'[i].pnl_pct = None]_vars

\* An unresolved close is still unresolved after an open of its symbol and
\* side was ingested and a later close was resolved to that open.
C7_Witness ==
    \E c \in Rows :
        /\ Settled(c) /\ c.ref_open_id = None /\ c.pnl_pct = None
        /\ \E o \in MatchingOpens(c) : o.id > c.id
        /\ \A q \in TvProcs : tvpc[q] = "idle"

\* The payloads the claim calls invalid (the code configures no allow-list:
\* every symbol that is present counts as allowed).
InvalidPayload(pl) ==
    \/ pl.symbol = None
    \/ pl.side = None
    \/ (IsSome(pl.side) /\ Upper(Val(pl.side)) \notin {"LONG", "SHORT", "CLOSE_LONG", "CLOSE_SHORT"})
    \/ pl.price = None
    \/ (IsSome(pl.price) /\ Val(pl.price) <= 0)

\* C8: an ingestion whose symbol is missing, whose side is none of the four,
\* or whose price is missing or not positive is rejected and stores no row.
C8_InvalidRejected ==
    [][\A q \in TvProcs, pl \in Payloads :
          (InvalidPayload(pl) /\ pl.secret = Some(WEBHOOK_SECRET) /\ TvHook(q, pl))
             => /\ signals' = signals
                /\ tvpc'[q] = "done"
                /\ tvStatus'[q] # 200]_vars

\* C9: an ingestion whose secret is not the configured one is answered 401
\* and stores nothing, consumes no id, writes no reference and sends no
\* notification, also in the steps that follow until the request returns.
C9_BadSecretChangesNothing ==
    [][\A q \in TvProcs :
          /\ \A pl \in Payloads :
                (pl.secret # Some(WEBHOOK_SECRET) /\ TvHook(q, pl))
                   => /\ tvpc'[q] = "done"
                      /\ tvStatus'[q] = 401
                      /\ signals' = signals
                      /\ nextId' = nextId
                      /\ tvSentTo' = tvSentTo
          /\ (tvpc[q] = "done" /\ tvStatus[q] = 401 /\ tvpc'[q] # "done")
                => /\ tvpc'[q] = "idle"
                   /\ signals' = signals
                   /\ tvSentTo'[q] = {}]_vars

\* A request was answered 401 while signals are stored.
C9_Witness ==
    \E q \in TvProcs :
        /\ tvpc[q] = "done" /\ tvStatus[q] = 401
        /\ tvSentTo[q] = {}
        /\ Len(signals) > 0

\* C10: when the fan-out of a close's ingestion starts, a close resolved to
\* an open of positive price has pnl_pct and closed_at set (stated for the
\* closes that came with a symbol).
C10_PnlBeforeFanOut ==
    \A q \in TvProcs :
        (tvpc[q] \in {"notify", "done"} /\ IsSome(tvSid[q])) =>
            LET c == RowById(Val(tvSid[q]))
            IN  (/\ IsCloseSide(c.side)
                 /\ c.symbol # "UNKNOWN"
                 /\ IsSome(c.ref_open_id)
                 /\ RowById(Val(c.ref_open_id)).price > 0)
                   => IsSome(c.pnl_pct) /\ IsSome(c.closed_at)

\* ------------------------------------------------------------------------
\* The daily summary.  Figures are in hundredths of a percent (PnL) and
\* tenths of a percent (win rate).

\* The open a resolved close refers to.
OpenOf(c) == RowById(Val(c.ref_open_id))

\* The price move in the trade's favour.
Gain(c) ==
    IF c.side = "CLOSE_LONG" THEN c.price - OpenOf(c).price
    ELSE OpenOf(c).price - c.price

\* A stored close with a PnL: resolved to a stored open of the complementary
\* side and positive price.
HasPnl(c) ==
    /\ IsCloseSide(c.side)
    /\ IsSome(c.ref_open_id)
    /\ \E o \in Rows : o.id = Val(c.ref_open_id) /\ o.price > 0
                       /\ o.side = OpenSideFor(c.side)

\* The PnL percentage of such a close, in hundredths of a percent.
PnlPct(c) == (Gain(c) * 10000) \div OpenOf(c).price

InDayOf(r, now) ==
    r.created_at >= TehranDayStart(now) /\ r.created_at < TehranDayEnd(now)

\* Request p has built its summary.
Built(p) == IsSome(cronSummary[p])

\* The closes of request p's day that have a PnL.
Counted(p) == {c \in Rows : InDayOf(c, Val(cronNow[p])) /\ HasPnl(c)}

RECURSIVE SumPnl(_)
SumPnl(S) ==
    IF S = {} THEN 0
    ELSE LET c == CHOOSE x \in S : TRUE IN PnlPct(c) + SumPnl(S \ {c})

\* C11: the PnL computed for a resolved close with open price o > 0 and
\* close price c is (c - o) / o * 100 for CLOSE_LONG and (o - c) / o * 100
\* for CLOSE_SHORT, for every stored close and in the best-trade figure of
\* every summary built (SHORT 50 -> CLOSE_SHORT 45 and LONG 100 ->
\* CLOSE_LONG 110 both give 10.00).
C11_PnlFormula ==
    /\ \A c \in Rows :
           HasPnl(c) => /\ IsSome(ClosePnl(c))
                        /\ Val(ClosePnl(c)) * OpenOf(c).price = Gain(c) * 10000
                        /\ ((c.price = 110 /\ OpenOf(c).price = 100 /\ c.side = "CLOSE_LONG")
                              => Val(ClosePnl(c)) = 1000)
                        /\ ((c.price = 45 /\ OpenOf(c).price = 50 /\ c.side = "CLOSE_SHORT")
                              => Val(ClosePnl(c)) = 1000)
    /\ \A p \in CronProcs :
           (Built(p) /\ IsSome(Val(cronSummary[p]).best)) =>
               LET b == Val(Val(cronSummary[p]).best)
                   c == RowById(b.close_id)
               IN  /\ c.ref_open_id = Some(b.open_id)
                   /\ b.pnl * OpenOf(c).price = Gain(c) * 10000

\* A summary was built whose best trade is SHORT 50 -> CLOSE_SHORT 45.
C11_Witness ==
    \E p \in CronProcs :
        /\ Built(p)
        /\ IsSome(Val(cronSummary[p]).best)
        /\ LET c == RowById(Val(Val(cronSummary[p]).best).close_id)
           IN  c.side = "CLOSE_SHORT" /\ c.price = 45 /\ OpenOf(c).price = 50

\* C12: a close whose open has a price <= 0, is not stored, or is not of
\* the complementary side has no PnL and enters no figure of the summary:
\* wins, losses and the total count only closes with a PnL, the best trade
\* is one of them, the cumulative figure is the sum over them; the request
\* that builds the summary goes on to the fan-out.
C12_SkippedCloseCountsNowhere ==
    /\ \A c \in Rows :
           (IsCloseSide(c.side) /\ IsSome(c.ref_open_id) /\ ~ HasPnl(c)) => ClosePnl(c) = None
    /\ \A p \in CronProcs :
           Built(p) =>
               LET s == Val(cronSummary[p])
               IN  /\ s.wins <= Cardinality({c \in Counted(p) : Gain(c) > 0})
                   /\ s.losses <= Cardinality({c \in Counted(p) : Gain(c) <= 0})
                   /\ s.total_trades <= Cardinality(Counted(p))
                   /\ IsSome(s.best) => RowById(Val(s.best).close_id) \in Counted(p)
                   /\ s.total_pnl = SumPnl(Counted(p))
                   /\ cronpc[p] \in {"send", "setmeta", "done"}

\* A summary was built over a day whose only close is resolved to an open
\* of price 0: no trade, no best trade, a cumulative figure of zero.
C12_Witness ==
    \E p \in CronProcs :
        /\ Built(p)
        /\ \E c \in Rows : /\ InDayOf(c, Val(cronNow[p]))
                           /\ IsCloseSide(c.side) /\ IsSome(c.ref_open_id)
                           /\ OpenOf(c).price <= 0
        /\ Val(cronSummary[p]).total_trades = 0
        /\ Val(cronSummary[p]).best = None
        /\ Val(cronSummary[p]).total_pnl = 0

\* C13: in a summary, a close whose PnL is exactly 0 is a loss and is in
\* the total of closed trades: losses count the closes with PnL <= 0, the
\* total counts every close with a PnL.
C13_ZeroPnlIsLoss ==
    \A p \in CronProcs :
        Built(p) =>
            /\ Val(cronSummary[p]).wins = Cardinality({c \in Counted(p) : Gain(c) > 0})
            /\ Val(cronSummary[p]).losses = Cardinality({c \in Counted(p) : Gain(c) <= 0})
            /\ Val(cronSummary[p]).total_trades = Cardinality(Counted(p))

\* C14: the cumulative figure of a summary is the sum of the strictly
\* positive PnL values of the day's closes, hence never negative.
C14_CumulativeOnlyPositive ==
    \A p \in CronProcs :
        Built(p) =>
            /\ Val(cronSummary[p]).total_pnl = SumPnl({c \in Counted(p) : Gain(c) > 0})
            /\ Val(cronSummary[p]).total_pnl >= 0

\* C15: the win rate of a summary is wins / total * 100 to one decimal,
\* total being the number of the day's closes with a PnL, and it is the
\* number 0 when total is 0.
C15_WinRateZeroWhenEmpty ==
    \A p \in CronProcs :
        Built(p) =>
            LET total == Cardinality(Counted(p))
                wins == Cardinality({c \in Counted(p) : Gain(c) > 0})
            IN  Val(cronSummary[p]).winrate =
                    Some(IF total = 0 THEN 0
                         ELSE (wins * 2000 + total) \div (2 * total))

\* ------------------------------------------------------------------------
\* The stored signals.

\* C16: every stored signal of side LONG or SHORT has ref_open_id, pnl_pct
\* and closed_at null, whatever ingestions, resolutions and scheduler runs
\* have taken place.
C16_OpenHasNoCloseFields ==
    \A r \in Rows :
        r.side \in {"LONG", "SHORT"} =>
            r.ref_open_id = None /\ r.pnl_pct = None /\ r.closed_at = None

\* An open is stored, a later close has been resolved to it, and a summary
\* has been built over both.
C16_Witness ==
    /\ \E o \in Rows, c \in Rows :
           /\ o.side \in {"LONG", "SHORT"}
           /\ c.ref_open_id = Some(o.id)
           /\ o.ref_open_id = None
    /\ \E p \in CronProcs : IsSome(cronSummary[p]) /\ Val(cronSummary[p]).opens > 0

\* C17: every stored symbol is upper-cased, and a close that has been
\* through the lookup is resolved whenever an earlier stored open of the
\* complementary side has the same symbol up to letter case.
C17_SymbolUpperCased ==
    /\ \A r \in Rows : r.symbol = Upper(r.symbol)
    /\ \A c \in Rows :
           (Settled(c) /\ \E o \in Rows : /\ o.id < c.id
                                          /\ o.side = OpenSideFor(c.side)
                                          /\ Upper(o.symbol) = Upper(c.symbol))
               => IsSome(c.ref_open_id)

\* C18: a step stores at most one new signal, under an id no stored signal
\* has, and only as the first step of an accepted ingestion; no stored
\* signal disappears or changes its id, symbol, side, price or time; the
\* only row a step changes is the close of the request doing its update,
\* and only in its reference.
C18_CreatedOnceNeverChanged ==
    [][/\ Len(signals') \in {Len(signals), Len(signals) + 1}
       /\ \A i \in 1..Len(signals) :
              /\ signals'[i].id = signals[i].id
              /\ signals'[i].symbol = signals[i].symbol
              /\ signals'[i].side = signals[i].side
              /\ signals'[i].price = signals[i].price
              /\ signals'[i].time = signals[i].time
              /\ signals'[i].created_at = signals[i].created_at
              /\ signals'[i].pnl_pct = signals[i].pnl_pct
              /\ signals'[i].closed_at = signals[i].closed_at
              /\ signals'[i] # signals[i] =>
                     \E q \in TvProcs : /\ tvpc[q] = "update"
                                        /\ tvpc'[q] = "notify"
                                        /\ tvSid[q] = Some(signals[i].id)
                                        /\ IsCloseSide(signals[i].side)
                                        /\ signals[i].ref_open_id = None
       /\ Len(signals') = Len(signals) + 1 =>
              LET new == signals'[Len(signals')]
              IN  /\ \A i \in 1..Len(signals) : signals[i].id # new.id
                  /\ \E q \in TvProcs : /\ tvpc[q] = "idle"
                                        /\ tvpc'[q] \in {"find", "notify"}
                                        /\ tvSid'[q] = Some(new.id)
                  /\ \A i \in 1..Len(signals) : signals'[i] = signals[i]]_vars

\* Two requests have each stored a signal; the first, a close, has had its
\* reference written after the second stored its row, and both rows are as
\* they were stored.
C18_Witness ==
    /\ Len(signals) = 3
    /\ signals[1].side = "LONG" /\ signals[1].ref_open_id = None
    /\ signals[2].side = "CLOSE_LONG" /\ signals[2].ref_open_id = Some(1)
    /\ signals[3].side = "CLOSE_SHORT" /\ signals[3].ref_open_id = None
    /\ \E q \in TvProcs : tvpc[q] = "notify" /\ tvSid[q] = Some(2)
    /\ \E q \in TvProcs : tvpc[q] \in {"find", "notify"} /\ tvSid[q] = Some(3)

\* ------------------------------------------------------------------------
\* Dispatch.

\* The users whose subscription_expires_at is set and not earlier than t.
ValidAt(t) == {u \in Users : expires[u] # None /\ Val(expires[u]) >= t}

\* C19: the fan-out step of an ingestion, whichever posts fail, leaves the
\* stored signals as they are (the new signal and its reference included),
\* attempts a post for every active subscriber, and answers 200 with the id
\* of the signal the request stored; delivering the answer changes no signal.
C19_NotifyFailuresSwallowed ==
    [][\A q \in TvProcs :
          /\ (tvpc[q] = "notify" /\ tvpc'[q] # "notify")
                => /\ tvpc'[q] = "done"
                   /\ tvStatus'[q] = 200
                   /\ signals' = signals
                   /\ tvSid'[q] = tvSid[q]
                   /\ \E r \in Rows : tvSid[q] = Some(r.id)
                   /\ tvSentTo'[q] = ValidAt(Now)
                   /\ tvFailed'[q] \subseteq tvSentTo'[q]
          /\ (tvpc[q] = "done" /\ tvStatus[q] = 200 /\ tvpc'[q] # "done")
                => signals' = signals]_vars

\* The ingestion of a resolved close has answered 200 although the post to
\* one of two active subscribers failed; the other was attempted too.
C19_Witness ==
    \E q \in TvProcs :
        /\ tvpc[q] = "done" /\ tvStatus[q] = 200
        /\ tvFailed[q] # {} /\ tvFailed[q] # tvSentTo[q]
        /\ tvFailed[q] \subseteq tvSentTo[q]
        /\ \E r \in Rows : tvSid[q] = Some(r.id) /\ IsSome(r.ref_open_id)

\* C20 as stated: every notification and every summary goes to a user whose
\* subscription_expires_at is set and not earlier than the time of that
\* send.
C20_ValidAtEverySend ==
    [][/\ \A q \in TvProcs :
              (tvpc[q] = "notify" /\ tvpc'[q] = "done") => tvSentTo'[q] \subseteq ValidAt(Now)
       /\ \A p \in CronProcs :
              cronpc[p] = "send" => (cronTodo[p] \ cronTodo'[p]) \subseteq ValidAt(Now)]_vars

\* C20: the recipients of a notification and of a summary are users whose
\* subscription_expires_at is set and not earlier than the time at which
\* the request reads its list of recipients, once, before its first send;
\* every send of the request goes to a user of that list.
C20_ValidWhenListed ==
    [][/\ \A q \in TvProcs :
              (tvpc[q] = "notify" /\ tvpc'[q] = "done") => tvSentTo'[q] \subseteq ValidAt(Now)
       /\ \A p \in CronProcs :
              /\ (cronpc[p] = "list" /\ cronpc'[p] # "list")
                    => /\ cronUsers'[p] \subseteq ValidAt(Now)
                       /\ cronTodo'[p] = cronUsers'[p]
              /\ cronpc[p] = "send"
                    => /\ (cronTodo[p] \ cronTodo'[p]) \subseteq cronUsers[p]
                       /\ cronUsers'[p] = cronUsers[p]
                       /\ cronTodo'[p] \subseteq cronTodo[p]]_vars

\* A summary is being sent, after notifications of stored signals, to a
\* list that leaves out a user whose subscription had expired when the
\* request started and a user without expiry.
C20_Witness ==
    \E p \in CronProcs :
        /\ cronpc[p] = "send"
        /\ cronUsers[p] # {}
        /\ cronTodo[p] # cronUsers[p]
        /\ \E u \in Users : /\ expires[u] # None
                            /\ Val(expires[u]) < Val(cronNow[p])
                            /\ u \notin cronUsers[p]
        /\ \E u \in Users : expires[u] = None /\ u \notin cronUsers[p]
        /\ Len(signals) > 0

\* ------------------------------------------------------------------------
\* Resolution without position tracking.

\* C21: with ingestions handled one at a time, a close that has been
\* through the lookup refers to the newest open of its symbol and
\* complementary side stored before it, whether or not an older open or
\* that open itself is already referred to: no newer matching open lies
\* between the referenced open and the close, and two closes with no
\* matching open stored between them have the same reference.
C21_LatestOpenEvenIfReused ==
    /\ \A c \in Rows :
           Settled(c) =>
               /\ (\E o \in MatchingOpens(c) : o.id < c.id) => IsSome(c.ref_open_id)
               /\ IsSome(c.ref_open_id) =>
                      ~ \E o \in MatchingOpens(c) :
                            Val(c.ref_open_id) < o.id /\ o.id < c.id
    /\ \A c1 \in Rows, c2 \in Rows :
           (/\ Settled(c1) /\ Settled(c2)
            /\ c1.symbol = c2.symbol /\ c1.side = c2.side /\ c1.id < c2.id
            /\ ~ \E o \in MatchingOpens(c1) : c1.id < o.id /\ o.id < c2.id)
               => c1.ref_open_id = c2.ref_open_id

\* One open is referred to by two closes.
C21_Witness ==
    \E c1 \in Rows, c2 \in Rows :
        /\ c1.id < c2.id
        /\ Settled(c1) /\ Settled(c2)
        /\ IsSome(c1.ref_open_id)
        /\ c1.ref_open_id = c2.ref_open_id

\* C22: whatever the interleaving of concurrent ingestions, the reference
\* of a stored close is smaller than the close's own id (stated for the
\* closes whose symbol came in upper case).
C22_RefBeforeClose ==
    \A c \in Rows :
        (c.symbol = "BTCUSDT" /\ IsSome(c.ref_open_id)) => Val(c.ref_open_id) < c.id

\* ------------------------------------------------------------------------
\* The marker and the day's batch.

\* C23: the marker changes only in the step of a run whose dispatch loop is
\* over (a send has been attempted for every user of the list the run
\* read), and it becomes that run's Tehran date; a run that stops before
\* its marker write leaves the marker as it was; and a trigger that finds
\* the marker different from its date goes on to dispatch.
C23_MarkerAfterLoop ==
    [][/\ marker' # marker =>
              \E p \in CronProcs :
                  /\ cronpc[p] = "send" /\ cronpc'[p] = "done"
                  /\ cronTodo[p] = {}
                  /\ cronResult'[p] = "sent"
                  /\ marker' = Some(TehranDate(Val(cronNow[p])))
                  /\ batches[TehranDate(Val(cronNow[p]))] >= 1
       /\ \A p \in CronProcs :
              /\ (cronpc[p] \in {"list", "send"} /\ cronpc'[p] = "done"
                  /\ cronResult'[p] # "sent") => marker' = marker
              /\ (cronpc[p] = "getmeta" /\ cronpc'[p] # "getmeta"
                  /\ marker # Some(TehranDate(Val(cronNow[p])))) => cronpc'[p] = "list"]_vars

\* After a run that stopped before its marker write, a later trigger of the
\* same date is dispatching the day's summary again.
C23_Witness ==
    \E p \in CronProcs :
        /\ cronpc[p] = "send"
        /\ \A r \in CronProcs \ {p} : cronpc[r] = "idle"
        /\ batches[TehranDate(Val(cronNow[p]))] = 2
        /\ marker # Some(TehranDate(Val(cronNow[p])))

\* C24: once a trigger has passed the 23:30 test on Tehran date D, the
\* marker comes to equal D with a batch for D dispatched; and a batch counts
\* for the Tehran date of the instant its trigger read on arrival, at or
\* after 23:30 of that date, never for an earlier date.
C24_DayGetsItsSummary ==
    /\ \A D \in Dates :
           (\E p \in CronProcs : cronpc[p] = "getmeta" /\ TehranDate(Val(cronNow[p])) = D)
               ~> (marker = Some(D) /\ batches[D] >= 1)
    /\ [][\A D \in Dates :
              batches'[D] # batches[D] =>
                  \E p \in CronProcs :
                      /\ cronpc[p] = "list" /\ cronpc'[p] = "send"
                      /\ TehranDate(Val(cronNow[p])) = D
                      /\ AtOrAfterCutoff(Val(cronNow[p]))
                      /\ Val(cronNow[p]) <= Now
                      /\ batches'[D] = batches[D] + 1]_vars

\* A trigger handled at 23:59 of the second date has dispatched that date's
\* batch and written the marker, the marker of the first date before it.
C24_Witness ==
    \E p \in CronProcs :
        /\ cronpc[p] = "done" /\ cronResult[p] = "sent"
        /\ TehranDate(Val(cronNow[p])) = 1
        /\ TehranMinute(Val(cronNow[p])) = 59
        /\ marker = Some(1)
        /\ batches[0] >= 1 /\ batches[1] >= 1

\* ------------------------------------------------------------------------
\* The chat commands.

\* C25: a /confirm that extends the subscription of a user by d days sets
\* the user's expiry to max(now, current expiry) + d days and leaves every
\* other user's expiry alone: with d >= 0 an existing expiry never moves
\* earlier, an expiry still in the future keeps its remaining time and gains
\* d days, an expiry that is absent or not in the future is replaced by
\* now + d days.
C25_ExtendStacks ==
    [][(/\ tgCount' = tgCount + 1
        /\ tgLast'.cmd = "confirm" /\ tgLast'.reply = "extended"
        /\ tgLast'.target \in Users)
          => LET u == tgLast'.target
                 d == tgLast'.days
                 cur == expires[u]
                 active == cur # None /\ Val(cur) > Now
             IN  /\ expires'[u] # None
                 /\ active => Val(expires'[u]) = Val(cur) + d * 1440
                 /\ ~active => Val(expires'[u]) = Now + d * 1440
                 /\ (active /\ d >= 0) => Val(expires'[u]) - Now >= Val(cur) - Now
                 /\ (cur # None /\ d >= 0) => Val(expires'[u]) >= Val(cur)
                 /\ \A v \in Users \ {u} : expires'[v] = expires[v]]_vars

\* Two extensions by one day: the first stacked on a running subscription,
\* the last started from now for a subscription that had run out.
C25_Witness ==
    /\ tgLast.cmd = "confirm" /\ tgLast.reply = "extended"
    /\ tgLast.target = 2 /\ tgLast.days = 1
    /\ Now > Instant(8)
    /\ expires[2] = Some(Now + 1440)
    /\ expires[1] = Some(Instant(MaxTick) + 1440 + 1440)

\* C26: a /confirm or /broadcast from a sender who is not in ADMIN_IDS,
\* after any sequence of updates, changes no expiry, no trial, no payment,
\* and posts nothing but the refusal to the sender.
C26_NonAdminChangesNothing ==
    [][(/\ tgCount' = tgCount + 1
        /\ tgLast'.cmd \in {"confirm", "broadcast"}
        /\ tgLast'.from \notin ADMIN_IDS)
          => /\ expires' = expires
             /\ trial' = trial
             /\ payments' = payments
             /\ tgLast'.reply = "admin_only"
             /\ tgLast'.recipients = {tgLast'.from}]_vars

\* A user with a pending payment has sent /confirm for themselves and has
\* been refused: the payment is still pending, the expiry as it was.
C26_Witness ==
    /\ tgLast.cmd = "confirm" /\ tgLast.from = 2 /\ tgLast.target = 2
    /\ tgLast.reply = "admin_only"
    /\ tgLast.recipients = {2}
    /\ payments[2] = [pending |-> 1, approved |-> 0]
    /\ expires[2] = Some(Instant(8))

====
